---- MODULE Spec2Model ----
(***************************************************************************)
(* gipc: the message protocol (frame codec, envelope) and the lifecycle of *)
(* Connection and Listener, in the exclusive form (connection/sync.rs) and *)
(* in the shared form (connection/async_tokio.rs).                         *)
(***************************************************************************)
EXTENDS Integers, Sequences, FiniteSets, TLC

(***************************************************************************)
(* Values and their binary encoding (serde + ciborium, CBOR).              *)
(*   a payload value is a record with a field k:                           *)
(*     [k |-> "uint", n |-> 0..23]      an unsigned integer                *)
(*     [k |-> "text", s |-> <<codes>>]  a String of fewer than 24 bytes    *)
(*     [k |-> "unit"]                   ()                                 *)
(*     [k |-> "bad"]                    a value whose Serialize impl fails *)
(*     [k |-> "msg", m |-> message]     a Message<T> used as a payload     *)
(*   a message is [tag |-> "ClosingConnection"] or                         *)
(*                [tag |-> "Data", data |-> value]                         *)
(*   a type is a sequence of constructor names, <<"msg", "text">> being    *)
(*   Message<String>.                                                      *)
(***************************************************************************)

\* the variant names serde derives for enum Message<T>, as UTF-8 codes
NameClosingConnection ==
    <<67, 108, 111, 115, 105, 110, 103, 67, 111, 110, 110, 101, 99, 116, 105, 111, 110>>

NameData == <<68, 97, 116, 97>>

ClosingConnection == [tag |-> "ClosingConnection"]

Data(v) == [tag |-> "Data", data |-> v]

Unit == [k |-> "unit"]

UInt(n) == [k |-> "uint", n |-> n]

Text(s) == [k |-> "text", s |-> s]

Unencodable == [k |-> "bad"]

\* CBOR initial bytes: major type 3 (text) with a short length, map of one pair
CborTextBase == 96

CborMap1 == 161

CborSmallMax == 23

CborNull == 246

EncText(s) == <<CborTextBase + Len(s)>> \o s

\* Serialize for a payload; <<>> stands for no bytes and is never a valid item
RECURSIVE Serialise(_)
Serialise(v) ==
    CASE v.k = "uint" -> <<v.n>>
      [] v.k = "text" -> EncText(v.s)
      [] v.k = "unit" -> <<CborNull>>
      [] v.k = "msg" ->
            IF v.m.tag = "ClosingConnection"
            THEN EncText(NameClosingConnection)
            ELSE <<CborMap1>> \o EncText(NameData) \o Serialise(v.m.data)
      [] OTHER -> <<>>

RECURSIVE CanSerialise(_)
CanSerialise(v) ==
    CASE v.k = "bad" -> FALSE
      [] v.k = "msg" -> v.m.tag = "ClosingConnection" \/ CanSerialise(v.m.data)
      [] OTHER -> TRUE

\* ciborium::ser::into_writer(self, &mut serialised) for a Message<T>
into_writer(m) ==
    IF CanSerialise([k |-> "msg", m |-> m])
    THEN [ok |-> TRUE, bytes |-> Serialise([k |-> "msg", m |-> m])]
    ELSE [ok |-> FALSE, bytes |-> <<>>]

DecFail == [ok |-> FALSE, val |-> Unit, rest |-> <<>>]

Drop(s, n) == SubSeq(s, n + 1, Len(s))

Take(s, n) == SubSeq(s, 1, n)

IsTextHead(b) == b >= CborTextBase /\ b <= CborTextBase + CborSmallMax

\* one text item at the head of b: [ok, val |-> the codes, rest]
DecTextItem(b) ==
    IF b = <<>> \/ ~IsTextHead(b[1]) \/ Len(b) < 1 + (b[1] - CborTextBase)
    THEN DecFail
    ELSE [ok |-> TRUE,
          val |-> SubSeq(b, 2, 1 + (b[1] - CborTextBase)),
          rest |-> Drop(b, 1 + (b[1] - CborTextBase))]

\* Deserialize for type ty from the head of b
RECURSIVE Deserialise(_, _)
Deserialise(b, ty) ==
    CASE Head(ty) = "uint" ->
            IF b # <<>> /\ b[1] <= CborSmallMax
            THEN [ok |-> TRUE, val |-> UInt(b[1]), rest |-> Tail(b)]
            ELSE DecFail
      [] Head(ty) = "text" ->
            LET t == DecTextItem(b)
            IN  IF t.ok THEN [t EXCEPT !.val = Text(t.val)] ELSE DecFail
      [] Head(ty) = "unit" ->
            IF b # <<>> /\ b[1] = CborNull
            THEN [ok |-> TRUE, val |-> Unit, rest |-> Tail(b)]
            ELSE DecFail
      [] Head(ty) = "msg" ->
            \* an enum is a map of one pair (variant name, content) or a bare
            \* text (the variant name)
            LET body == IF b # <<>> /\ b[1] = CborMap1 THEN Tail(b) ELSE b
                name == DecTextItem(body)
            IN  IF b = <<>> \/ ~name.ok
                THEN DecFail
                ELSE IF name.val = NameClosingConnection
                THEN [ok |-> TRUE,
                      val |-> [k |-> "msg", m |-> ClosingConnection],
                      rest |-> name.rest]
                ELSE IF name.val = NameData
                THEN LET d == Deserialise(name.rest, Tail(ty))
                     IN  IF d.ok
                         THEN [d EXCEPT !.val = [k |-> "msg", m |-> Data(d.val)]]
                         ELSE DecFail
                ELSE DecFail
      [] OTHER -> DecFail

\* ciborium::de::from_reader(raw.as_slice()) for Message<ty>
from_reader(raw, ty) ==
    LET d == Deserialise(raw, <<"msg">> \o ty)
    IN  IF d.ok THEN [ok |-> TRUE, msg |-> d.val.m]
        ELSE [ok |-> FALSE, msg |-> ClosingConnection]

(***************************************************************************)
(* The frame codec (mod raw).                                              *)
(***************************************************************************)

\* size_of::<u64>()
PrefixLen == 8

Byte == 256

\* a length no stream of the model holds: stands for every prefix whose five
\* high bytes are not all zero
Huge == Byte * Byte * Byte

\* a prefix written least significant byte first
write_u64_LittleEndian(n) ==
    <<n % Byte, (n \div Byte) % Byte, (n \div (Byte * Byte)) % Byte, 0, 0, 0, 0, 0>>

\* WriteBytesExt::write_u64::<BigEndian>
write_u64(n) ==
    <<0, 0, 0, 0, 0, (n \div (Byte * Byte)) % Byte, (n \div Byte) % Byte, n % Byte>>

\* ReadBytesExt::read_u64::<BigEndian> of eight bytes, as usize
read_u64(b) ==
    IF \E i \in 1..5 : b[i] # 0 THEN Huge
    ELSE b[6] * Byte * Byte + b[7] * Byte + b[8]

\* a prefix that counts its own eight bytes
serialised_vec_CountsPrefix(data) == write_u64(Len(data) + PrefixLen) \o data

\* raw::serialised_vec: the length of data as u64, then data
serialised_vec(data) == write_u64(Len(data)) \o data

(***************************************************************************)
(* The instances: one client Connection A and the Connection B that the    *)
(* Listener L accepted for it, and the tasks that call their operations.   *)
(***************************************************************************)

Conns == {"A", "B"}

Listeners == {"L"}

Insts == Conns \cup Listeners

Peer(c) == IF c = "A" THEN "B" ELSE "A"

Procs == {"A1", "A2", "B1", "L1", "L2"}

Inst(p) ==
    CASE p \in {"A1", "A2"} -> "A"
      [] p = "B1" -> "B"
      [] OTHER -> "L"

ProcsOf(i) == {p \in Procs : Inst(p) = i}

ConnProcs == {p \in Procs : Inst(p) \in Conns}

ListenerProcs == {p \in Procs : Inst(p) \in Listeners}

\* the owner of an instance of the exclusive form
Main(i) ==
    CASE i = "A" -> "A1"
      [] i = "B" -> "B1"
      [] OTHER -> "L1"

Forms == {"sync", "async"}

\* the payloads the callers send and the types they ask receive() for
Payloads == {UInt(5), Text(<<113>>), Unencodable}

Types == {<<"uint">>, <<"text">>}

\* number of operation calls and failing transport calls in one run
MaxEvents == 3

VARIABLES
    form,    \* form[i]: the module the instance is built from
    closed,  \* closed[i]: the field closed
    nclose,  \* nclose[i]: how often internal.close() was invoked
    life,    \* life[i]: "none" (not constructed yet), "live" or "dropped"
    backlog, \* the client has connected and is not accepted yet
    inner,   \* inner[i]: the task holding the instance (Mutex guard, &mut self)
    wire,    \* wire[c]: the bytes written to the stream that c reads
    task,    \* task[p]: the operation p is in
    ret,     \* the operation that returned in the last step, if one did
    calls,   \* operations called so far
    faults,  \* transport failures so far
    twin     \* the inputs and the kept results of a scenario (SpecTwin,
             \* SpecCodec, SpecDialogue); TwinOff in Spec

vars ==
    <<form, closed, nclose, life, backlog, inner, wire, task, ret, calls, faults, twin>>

NoRes == [kind |-> "None", val |-> Unit, by |-> FALSE]

Ok(v) == [kind |-> "Ok", val |-> v, by |-> FALSE]

Err(kind) == [kind |-> kind, val |-> Unit, by |-> FALSE]

\* Error::Closed(by_operation)
Closed(by) == [kind |-> "Closed", val |-> Unit, by |-> by]

Bool(b) == [k |-> "bool", b |-> b]

\* no operation returned in the last step
NoRet == [p |-> "none", op |-> "none", was |-> FALSE, res |-> NoRes, io |-> {}]

\* no comparison of the forms is running
TwinOff == [turn |-> "off", op |-> "none", v |-> Unit, ty |-> <<>>, res |-> NoRes]

\* a task between two operations
Idle ==
    [pc |-> "idle", op |-> "none", half |-> "none",
     buf |-> <<>>, need |-> 0, io |-> {}, was |-> FALSE]

Init ==
    /\ form \in {[i \in Insts |-> f] : f \in Forms}
    /\ closed = [i \in Insts |-> FALSE]
    /\ nclose = [i \in Insts |-> 0]
    /\ life = [i \in Insts |-> IF i \in Listeners THEN "live" ELSE "none"]
    /\ backlog = FALSE
    /\ inner = [i \in Insts |-> "none"]
    /\ wire = [c \in Conns |-> <<>>]
    /\ task = [p \in Procs |-> Idle]
    /\ ret = NoRet
    /\ calls = 0
    /\ faults = 0
    /\ twin = TwinOff

(***************************************************************************)
(* Connection: the steps of send, receive, send_and_receive, close, drop.  *)
(* An operation is called (Call), takes the instance (the Mutex guard of   *)
(* the shared form, the &mut borrow of the exclusive form) and runs to its *)
(* first transport call (Begin...), then takes one step per transport call *)
(* that can block or fail. task[p].io collects the transport primitives    *)
(* the operation has invoked, task[p].was is the closed flag it found.     *)
(***************************************************************************)

ConnOps == {"send", "receive", "send_and_receive", "close", "drop", "is_closed"}

\* what the caller may call: the exclusive form has one owner and no
\* is_closed; a drop needs the instance unborrowed, and nothing is called on
\* an instance that is being dropped
CanCall(p, op) ==
    LET i == Inst(p)
    IN  /\ life[i] = "live"
        /\ task[p].pc = "idle"
        /\ \A q \in ProcsOf(i) : task[q].op # "drop"
        /\ form[i] = "sync" => p = Main(i) /\ op # "is_closed"
        /\ op = "drop" => \A q \in ProcsOf(i) : task[q].pc = "idle"

\* a transport call succeeds (ok) or fails
Transport(ok) ==
    /\ ok \in BOOLEAN
    /\ ~ok => calls + faults < MaxEvents
    /\ faults' = IF ok THEN faults ELSE faults + 1

\* a task that has called op and has not taken the instance yet
Called(op) ==
    [Idle EXCEPT !.pc = "lock", !.op = op,
                 !.half = IF op = "send_and_receive" THEN "send" ELSE "none"]

\* p calls op; the payload and the result type of the call are drawn where
\* the operation first uses them (BeginSend, ReadBody)
Call(p, op) ==
    /\ calls + faults < MaxEvents
    /\ Inst(p) \in Conns
    /\ op \in ConnOps
    /\ CanCall(p, op)
    /\ task' = [task EXCEPT ![p] = Called(op)]
    /\ calls' = calls + 1
    /\ ret' = NoRet
    /\ UNCHANGED <<form, closed, nclose, life, backlog, inner, wire, faults>>

\* a guard that every task can take at any time
Free_NoMutex(i) == TRUE

\* the instance can be taken: `self.inner.lock().await` completes when no
\* task holds the guard (in the exclusive form, `&mut self` is the only borrow)
Free(i) == inner[i] = "none"

\* an operation that goes on without keeping the guard
Acquire_Releases(p, pc, buf) ==
    /\ task' = [task EXCEPT ![p].pc = pc, ![p].buf = buf,
                            ![p].was = IF task[p].half = "recv" THEN @ ELSE closed[Inst(p)]]
    /\ inner' = inner

\* p takes the instance and finds the closed flag
\* and goes on to step pc with buf to write
Acquire(p, pc, buf) ==
    /\ task' = [task EXCEPT ![p].pc = pc, ![p].buf = buf,
                            ![p].was = IF task[p].half = "recv" THEN @ ELSE closed[Inst(p)]]
    /\ inner' = [inner EXCEPT ![Inst(p)] = p]

\* a return that keeps the guard when the operation failed
Return_KeepsGuardOnError(p, r, io) ==
    /\ task' = [task EXCEPT ![p] = Idle]
    /\ ret' = [p |-> p, op |-> task[p].op, res |-> r, io |-> io,
                was |-> IF task[p].pc = "lock" /\ task[p].half # "recv"
                        THEN closed[Inst(p)] ELSE task[p].was]
    /\ inner' = IF r.kind = "Ok" THEN [inner EXCEPT ![Inst(p)] = "none"] ELSE inner

\* the operation of p returns r, having invoked the primitives io: the guard
\* is released
Return(p, r, io) ==
    /\ task' = [task EXCEPT ![p] = Idle]
    /\ ret' = [p |-> p, op |-> task[p].op, res |-> r, io |-> io,
                was |-> IF task[p].pc = "lock" /\ task[p].half # "recv"
                        THEN closed[Inst(p)] ELSE task[p].was]
    /\ inner' = [inner EXCEPT ![Inst(p)] = "none"]

\* a _close that sets the flag and leaves the transport as it is
CloseAndReturn_KeepsTransport(p, r, io) ==
    LET c == Inst(p)
    IN  /\ nclose' = nclose
        /\ closed' = [closed EXCEPT ![c] = TRUE]
        /\ Return(p, r, io)
        /\ life' = IF task[p].op = "drop" THEN [life EXCEPT ![c] = "dropped"] ELSE life

\* ConnectionInner::_close / Connection::_close, the last step of the
\* operation of p, which then returns r
CloseAndReturn(p, r, io) ==
    LET c == Inst(p)
    IN  /\ nclose' = [nclose EXCEPT ![c] = @ + 1]
        /\ closed' = [closed EXCEPT ![c] = TRUE]
        /\ Return(p, r, io \cup {"close"})
        /\ life' = IF task[p].op = "drop" THEN [life EXCEPT ![c] = "dropped"] ELSE life

\* `if self.closed { return Err(Error::Closed(false)) }` of send
SendGuard(c) == closed[c]

\* Connection::send up to the first write: the closed check, Message::Data,
\* into_writer, serialised_vec
BeginSend(p, message_data) ==
    LET c == Inst(p)
        s == into_writer(Data(message_data))
    IN  /\ message_data \in Payloads
        /\ task[p].pc = "lock"
        /\ task[p].op \in {"send", "send_and_receive"}
        /\ task[p].half # "recv"
        /\ Free(c)
        /\ IF SendGuard(c)
           THEN Return(p, Closed(FALSE), {})
           ELSE IF ~s.ok
           THEN Return(p, Err("Serialise"), {})
           ELSE /\ Acquire(p, "write", serialised_vec(s.bytes))
                /\ ret' = NoRet
        /\ UNCHANGED <<form, closed, nclose, life, backlog, wire, calls, faults>>

\* a send() that closes the connection when the write failed
SendReturns_ClosesOnError(p, r, io) ==
    IF r.kind = "Io"
    THEN CloseAndReturn(p, r, io)
    ELSE /\ Return(p, r, io)
         /\ UNCHANGED <<closed, nclose, life>>

\* Connection::send: `self._send(message)` is the value of send; the result
\* r of the write is returned as it is and the state is left alone
SendReturns(p, r, io) ==
    /\ Return(p, r, io)
    /\ UNCHANGED <<closed, nclose, life>>

\* a send_and_receive that calls receive() whatever send returned
Proceeds_Always(r) == TRUE

\* `self.send(data)?` of send_and_receive: receive() is called when send
\* returned Ok, and the error of send is returned otherwise
Proceeds(r) == r.kind = "Ok"

\* a send_and_receive that keeps the guard from its send to its receive
Between_Held(p) == p

\* the holder of the guard between `self.send(data).await?` and
\* `self.receive().await`: the guard of send is dropped when send returns
Between(p) == "none"

\* what follows the return of _send(message) with result r in the operation
\* of p: send returns r; send_and_receive goes on to receive() when r is Ok;
\* close discards r and closes
AfterSend(p, r, io) ==
    LET c == Inst(p)
    IN  CASE task[p].op = "send" -> SendReturns(p, r, io)
          [] task[p].op = "send_and_receive" ->
               /\ IF Proceeds(r)
                  THEN /\ task' = [task EXCEPT ![p].pc = "lock", ![p].half = "recv",
                                               ![p].buf = <<>>, ![p].io = io]
                       /\ inner' = [inner EXCEPT ![c] = Between(p)]
                       /\ ret' = NoRet
                  ELSE Return(p, r, io)
               /\ UNCHANGED <<closed, nclose, life>>
          [] OTHER -> CloseAndReturn(p, Ok(Unit), io)

\* the stream of c has ended: the peer's handle is dropped, or the listener
\* was dropped before it accepted the peer
Eof(c) ==
    \/ life[Peer(c)] = "dropped"
    \/ life[Peer(c)] = "none" /\ \A l \in Listeners : life[l] = "dropped"

\* the sizes one write call on the transport may accept of buffer b
WriteSizes(b) == {Len(b)} \cup {n \in {PrefixLen} : n < Len(b)}

\* a write that puts its bytes in front of those not read yet
WriteStep_Prepends(p, n, ok) ==
    LET c == Inst(p)
        t == task[p]
    IN  /\ t.pc = "write"
        /\ n \in WriteSizes(t.buf)
        /\ IF ok
           THEN /\ wire' = [wire EXCEPT ![Peer(c)] = Take(t.buf, n) \o @]
                /\ task' = [task EXCEPT ![p].buf = Drop(t.buf, n),
                                        ![p].io = @ \cup {"write"},
                                        ![p].pc = IF n = Len(t.buf) THEN "flush" ELSE "write"]
                /\ ret' = NoRet
                /\ UNCHANGED <<closed, nclose, life, inner>>
           ELSE /\ n = Len(t.buf)
                /\ wire' = wire
                /\ AfterSend(p, Err("Io"), t.io \cup {"write"})
        /\ UNCHANGED <<form, backlog, calls>>
        /\ IF Eof(c) THEN ~ok /\ faults' = faults ELSE Transport(ok)

\* raw::write_to: one write call of write_all(complete), accepting n bytes
\* (ok) or failing; it fails when the peer's end is gone
WriteStep(p, n, ok) ==
    LET c == Inst(p)
        t == task[p]
    IN  /\ t.pc = "write"
        /\ n \in WriteSizes(t.buf)
        /\ IF ok
           THEN /\ wire' = [wire EXCEPT ![Peer(c)] = @ \o Take(t.buf, n)]
                /\ task' = [task EXCEPT ![p].buf = Drop(t.buf, n),
                                        ![p].io = @ \cup {"write"},
                                        ![p].pc = IF n = Len(t.buf) THEN "flush" ELSE "write"]
                /\ ret' = NoRet
                /\ UNCHANGED <<closed, nclose, life, inner>>
           ELSE /\ n = Len(t.buf)
                /\ wire' = wire
                /\ AfterSend(p, Err("Io"), t.io \cup {"write"})
        /\ UNCHANGED <<form, backlog, calls>>
        /\ IF Eof(c) THEN ~ok /\ faults' = faults ELSE Transport(ok)

\* a flush whose failure is not reported
FlushStep_IgnoresError(p, ok) ==
    /\ task[p].pc = "flush"
    /\ AfterSend(p, Ok(Unit), task[p].io \cup {"flush"})
    /\ UNCHANGED <<form, backlog, wire, calls>>
    /\ Transport(ok)

\* Message::write_to: writer.flush() after the frame is written
FlushStep(p, ok) ==
    /\ task[p].pc = "flush"
    /\ AfterSend(p, IF ok THEN Ok(Unit) ELSE Err("Io"), task[p].io \cup {"flush"})
    /\ UNCHANGED <<form, backlog, wire, calls>>
    /\ Transport(ok)

\* a receive() that does not look at the closed flag
ReceiveGuard_Skipped(c) == FALSE

\* `if self.closed { return Err(Error::Closed(false)) }` of receive
ReceiveGuard(c) == closed[c]

\* a receive() that decodes every payload as a Message
ReceiveType_Wrapped(p, ty) == <<"msg">> \o ty

\* the type receive() decodes the payload as, ty being the type the caller
\* asks for: T of receive::<T>; the exclusive form's send_and_receive returns
\* Result<Message<B>> and so calls receive::<Message<B>>
ReceiveType(p, ty) ==
    IF task[p].op = "send_and_receive" /\ form[Inst(p)] = "sync"
    THEN <<"msg">> \o ty
    ELSE ty

\* Connection::receive up to the first read
BeginReceive(p) ==
    LET c == Inst(p)
    IN  /\ task[p].pc = "lock"
        /\ \/ task[p].op = "receive"
           \/ task[p].op = "send_and_receive" /\ task[p].half = "recv"
        /\ Free(c)
        /\ IF ReceiveGuard(c)
           THEN Return(p, Closed(FALSE), task[p].io)
           ELSE /\ Acquire(p, "read_len", <<>>)
                /\ ret' = NoRet
        /\ UNCHANGED <<form, closed, nclose, life, backlog, wire, calls, faults>>

\* raw::read_from: reader.read_u64(), a read_exact of the prefix. It blocks
\* until the bytes are there, the stream ends or the read fails (~ok).
ReadLen(p, ok) ==
    LET c == Inst(p)
        t == task[p]
        io == t.io \cup {"read"}
    IN  /\ t.pc = "read_len"
        /\ IF ~ok
           THEN /\ Return(p, Err("Io"), io)
                /\ wire' = wire
           ELSE IF Len(wire[c]) >= PrefixLen
           THEN /\ task' = [task EXCEPT ![p].pc = "read_body", ![p].io = io,
                                        ![p].need = read_u64(Take(wire[c], PrefixLen))]
                /\ wire' = [wire EXCEPT ![c] = Drop(@, PrefixLen)]
                /\ ret' = NoRet
                /\ inner' = inner
           ELSE /\ Eof(c)
                /\ Return(p, Err("Io"), io)
                /\ wire' = [wire EXCEPT ![c] = <<>>]
        /\ UNCHANGED <<form, closed, nclose, life, backlog, calls>>
        /\ Transport(ok)

\* a receive() that reports the peer's closing and leaves the connection Open
AfterReceive_StaysOpen(p, message, io) ==
    /\ Return(p, IF message.tag = "ClosingConnection"
                 THEN Closed(TRUE) ELSE Ok(message.data), io)
    /\ UNCHANGED <<closed, nclose, life>>

\* Connection::receive after Message::read_from returned Ok(message)
AfterReceive(p, message, io) ==
    IF message.tag = "ClosingConnection"
    THEN CloseAndReturn(p, Closed(TRUE), io)
    ELSE /\ Return(p, Ok(message.data), io)
         /\ UNCHANGED <<closed, nclose, life>>

\* a receive() that closes the connection when the frame does not decode
ReadBody_ClosesOnError(p, ty, ok) ==
    LET c == Inst(p)
        t == task[p]
        io == t.io \cup {"read"}
        d == from_reader(Take(wire[c], t.need), ReceiveType(p, ty))
    IN  /\ ty \in Types
        /\ t.pc = "read_body"
        /\ IF ~ok
           THEN /\ Return(p, Err("Io"), io)
                /\ UNCHANGED <<wire, closed, nclose, life>>
           ELSE IF Len(wire[c]) >= t.need
           THEN /\ wire' = [wire EXCEPT ![c] = Drop(@, t.need)]
                /\ IF d.ok
                   THEN AfterReceive(p, d.msg, io)
                   ELSE CloseAndReturn(p, Err("Deserialise"), io)
           ELSE /\ Eof(c)
                /\ Return(p, Err("Io"), io)
                /\ wire' = [wire EXCEPT ![c] = <<>>]
                /\ UNCHANGED <<closed, nclose, life>>
        /\ UNCHANGED <<form, backlog, calls>>
        /\ Transport(ok)

\* raw::read_from: reader.read_exact(vector) of the announced size, then
\* Message::read_from: from_reader(raw), then the match of receive
ReadBody(p, ty, ok) ==
    LET c == Inst(p)
        t == task[p]
        io == t.io \cup {"read"}
        d == from_reader(Take(wire[c], t.need), ReceiveType(p, ty))
    IN  /\ ty \in Types
        /\ t.pc = "read_body"
        /\ IF ~ok
           THEN /\ Return(p, Err("Io"), io)
                /\ UNCHANGED <<wire, closed, nclose, life>>
           ELSE IF Len(wire[c]) >= t.need
           THEN /\ wire' = [wire EXCEPT ![c] = Drop(@, t.need)]
                /\ IF d.ok
                   THEN AfterReceive(p, d.msg, io)
                   ELSE /\ Return(p, Err("Deserialise"), io)
                        /\ UNCHANGED <<closed, nclose, life>>
           ELSE /\ Eof(c)
                /\ Return(p, Err("Io"), io)
                /\ wire' = [wire EXCEPT ![c] = <<>>]
                /\ UNCHANGED <<closed, nclose, life>>
        /\ UNCHANGED <<form, backlog, calls>>
        /\ Transport(ok)

\* instances that are dropped without any close
HasDrop_Never(i) == FALSE

\* `impl Drop for Connection`, `impl Drop for Listener`: the exclusive form
\* has them, the shared form has none
HasDrop(i) == form[i] = "sync"

\* a close() that does not look at the closed flag
CloseGuard_Skipped(c) == FALSE

\* `if self.closed { return; }` of close
CloseGuard(c) == closed[c]

\* whether close() runs _send(Message::ClosingConnection): the exclusive form
\* calls it; the shared form builds the future of the async fn _send and drops
\* it without .await, so nothing of it runs
CloseSendsSignal(c) == form[c] = "sync"

\* Connection::close (and Drop for the exclusive Connection, which calls it)
\* up to the first write
BeginClose(p) ==
    LET c == Inst(p)
        s == into_writer(ClosingConnection)
    IN  /\ task[p].pc = "lock"
        /\ c \in Conns
        /\ \/ task[p].op = "close"
           \/ task[p].op = "drop" /\ HasDrop(c)
        /\ Free(c)
        /\ IF CloseGuard(c)
           THEN /\ Return(p, Ok(Unit), {})
                /\ life' = IF task[p].op = "drop"
                           THEN [life EXCEPT ![c] = "dropped"] ELSE life
                /\ UNCHANGED <<closed, nclose>>
           ELSE IF CloseSendsSignal(c)
           THEN /\ Acquire(p, "write", serialised_vec(s.bytes))
                /\ ret' = NoRet
                /\ UNCHANGED <<closed, nclose, life>>
           ELSE CloseAndReturn(p, Ok(Unit), {})
        /\ UNCHANGED <<form, backlog, wire, calls, faults>>

\* the shared Connection has no Drop impl: dropping it releases the handle
DropShared(p) ==
    LET c == Inst(p)
    IN  /\ task[p].pc = "lock"
        /\ task[p].op = "drop"
        /\ ~HasDrop(c)
        /\ Return(p, Ok(Unit), {})
        /\ life' = [life EXCEPT ![c] = "dropped"]
        /\ UNCHANGED <<form, closed, nclose, backlog, wire, calls, faults>>

\* Connection::is_closed of the shared form: blocking_lock().closed
IsClosed(p) ==
    LET c == Inst(p)
    IN  /\ task[p].pc = "lock"
        /\ task[p].op = "is_closed"
        /\ Free(c)
        /\ Return(p, Ok(Bool(closed[c])), {})
        /\ UNCHANGED <<form, closed, nclose, life, backlog, wire, calls, faults>>

(***************************************************************************)
(* Listener: accept, close, drop, is_closed; and the client's connect.     *)
(***************************************************************************)

ListenerOps == {"accept", "close", "drop", "is_closed"}

CallListener(p, op) ==
    /\ calls + faults < MaxEvents
    /\ Inst(p) \in Listeners
    /\ op \in ListenerOps
    /\ CanCall(p, op)
    /\ task' = [task EXCEPT ![p] = Called(op)]
    /\ calls' = calls + 1
    /\ ret' = NoRet
    /\ UNCHANGED <<form, closed, nclose, life, backlog, inner, wire, faults>>

\* Connection::connect_to_socket: the client's Connection A, made by
\* Connection::new with closed: false when the transport connects (ok)
Connect(c, ok) ==
    /\ c = "A"
    /\ life[c] = "none"
    /\ ok => \E l \in Listeners : life[l] = "live"
    /\ IF ok
       THEN /\ life' = [life EXCEPT ![c] = "live"]
            /\ backlog' = TRUE
            /\ ret' = [NoRet EXCEPT !.p = c, !.op = "connect",
                                    !.res = Ok(Bool(closed[c]))]
       ELSE /\ ret' = [NoRet EXCEPT !.p = c, !.op = "connect", !.res = Err("Io")]
            /\ UNCHANGED <<life, backlog>>
    /\ UNCHANGED <<form, closed, nclose, inner, wire, task, calls>>
    /\ Transport(ok)

\* an accept() that does not look at the closed flag
AcceptGuard_Skipped(l) == FALSE

\* `if self.closed { return Err(Error::Closed(false)) }` of accept
AcceptGuard(l) == closed[l]

\* Listener::accept up to internal.accept()
BeginAccept(p) ==
    LET l == Inst(p)
    IN  /\ task[p].pc = "lock"
        /\ task[p].op = "accept"
        /\ Free(l)
        /\ IF AcceptGuard(l)
           THEN Return(p, Closed(FALSE), {})
           ELSE /\ Acquire(p, "accept", <<>>)
                /\ ret' = NoRet
        /\ UNCHANGED <<form, closed, nclose, life, backlog, wire, calls, faults>>

\* an accept() that gives the listener up when the transport fails
AcceptStep_ClosesOnError(p, ok) ==
    LET l == Inst(p)
        io == task[p].io \cup {"accept"}
    IN  /\ task[p].pc = "accept"
        /\ IF ok
           THEN /\ backlog
                /\ backlog' = FALSE
                /\ life' = [life EXCEPT !["B"] = "live"]
                /\ Return(p, Ok(Bool(closed["B"])), io)
                /\ closed' = closed
           ELSE /\ Return(p, Err("Io"), io)
                /\ closed' = [closed EXCEPT ![l] = TRUE]
                /\ UNCHANGED <<life, backlog>>
        /\ UNCHANGED <<form, nclose, wire, calls>>
        /\ Transport(ok)

\* ListenerImpl::accept: it blocks until a peer has connected, then returns
\* Connection::from(stream), the Connection B with closed: false (ok), or fails
AcceptStep(p, ok) ==
    LET l == Inst(p)
        io == task[p].io \cup {"accept"}
    IN  /\ task[p].pc = "accept"
        /\ IF ok
           THEN /\ backlog
                /\ backlog' = FALSE
                /\ life' = [life EXCEPT !["B"] = "live"]
                /\ Return(p, Ok(Bool(closed["B"])), io)
           ELSE /\ Return(p, Err("Io"), io)
                /\ UNCHANGED <<life, backlog>>
        /\ UNCHANGED <<form, closed, nclose, wire, calls>>
        /\ Transport(ok)

\* a Listener::close that does not look at the closed flag
ListenerCloseGuard_Skipped(l) == FALSE

\* `if self.closed { return Err(Error::Closed(false)) }` of Listener::close
ListenerCloseGuard(l) == closed[l]

\* a Listener::close that leaves the flag alone until internal.close() is done
ClosedBeforeClose_Late(l) == closed[l]

\* `self.closed = true;` stands before `self.internal.close()`: the flag when
\* internal.close() is called
ClosedBeforeClose(l) == TRUE

\* Listener::close up to internal.close(): the closed check, closed = true;
\* Drop for the exclusive Listener calls it
BeginCloseListener(p) ==
    LET l == Inst(p)
    IN  /\ l \in Listeners
        /\ task[p].pc = "lock"
        /\ \/ task[p].op = "close"
           \/ task[p].op = "drop" /\ HasDrop(l)
        /\ Free(l)
        /\ IF ListenerCloseGuard(l)
           THEN /\ Return(p, Closed(FALSE), {})
                /\ life' = IF task[p].op = "drop"
                           THEN [life EXCEPT ![l] = "dropped"] ELSE life
                /\ closed' = closed
           ELSE /\ Acquire(p, "close_internal", <<>>)
                /\ closed' = [closed EXCEPT ![l] = ClosedBeforeClose(l)]
                /\ ret' = NoRet
                /\ life' = life
        /\ UNCHANGED <<form, nclose, backlog, wire, calls, faults>>

\* a Listener::close that takes the closing back when internal.close() fails
ClosedAfterClose_RolledBack(l, ok) == ok

\* `self.closed = true; // we set it to closed either way`: the flag after
\* internal.close() returned Ok (ok) or an error
ClosedAfterClose(l, ok) == TRUE

\* a Listener::close that also closes the Connection it has accepted
CloseListenerStep_ClosesAccepted(p, ok) ==
    LET l == Inst(p)
    IN  /\ task[p].pc = "close_internal"
        /\ nclose' = [nclose EXCEPT ![l] = @ + 1]
        /\ closed' = [closed EXCEPT ![l] = ClosedAfterClose(l, ok),
                                    !["B"] = @ \/ life["B"] = "live"]
        /\ Return(p, IF ok THEN Ok(Unit) ELSE Err("Io"), task[p].io \cup {"close"})
        /\ life' = IF task[p].op = "drop" THEN [life EXCEPT ![l] = "dropped"] ELSE life
        /\ UNCHANGED <<form, backlog, wire, calls>>
        /\ Transport(ok)

\* ListenerImpl::close returns Ok(()) (ok) or an error, which Listener::close
\* returns
CloseListenerStep(p, ok) ==
    LET l == Inst(p)
    IN  /\ task[p].pc = "close_internal"
        /\ nclose' = [nclose EXCEPT ![l] = @ + 1]
        /\ closed' = [closed EXCEPT ![l] = ClosedAfterClose(l, ok)]
        /\ Return(p, IF ok THEN Ok(Unit) ELSE Err("Io"), task[p].io \cup {"close"})
        /\ life' = IF task[p].op = "drop" THEN [life EXCEPT ![l] = "dropped"] ELSE life
        /\ UNCHANGED <<form, backlog, wire, calls>>
        /\ Transport(ok)

Next ==
    \/ \E p \in ConnProcs, op \in ConnOps : Call(p, op) /\ UNCHANGED twin
    \/ \E p \in ConnProcs, v \in Payloads : BeginSend(p, v) /\ UNCHANGED twin
    \/ \E p \in ConnProcs, ok \in BOOLEAN :
          \E n \in WriteSizes(task[p].buf) : WriteStep(p, n, ok) /\ UNCHANGED twin
    \/ \E p \in ConnProcs, ok \in BOOLEAN : FlushStep(p, ok) /\ UNCHANGED twin
    \/ \E p \in ConnProcs : BeginReceive(p) /\ UNCHANGED twin
    \/ \E p \in ConnProcs, ok \in BOOLEAN : ReadLen(p, ok) /\ UNCHANGED twin
    \/ \E p \in ConnProcs, ty \in Types, ok \in BOOLEAN : ReadBody(p, ty, ok) /\ UNCHANGED twin
    \/ \E p \in ConnProcs : BeginClose(p) /\ UNCHANGED twin
    \/ \E p \in Procs : DropShared(p) /\ UNCHANGED twin
    \/ \E p \in Procs : IsClosed(p) /\ UNCHANGED twin
    \/ \E c \in Conns, ok \in BOOLEAN : Connect(c, ok) /\ UNCHANGED twin
    \/ \E p \in ListenerProcs, op \in ListenerOps : CallListener(p, op) /\ UNCHANGED twin
    \/ \E p \in ListenerProcs : BeginAccept(p) /\ UNCHANGED twin
    \/ \E p \in ListenerProcs, ok \in BOOLEAN : AcceptStep(p, ok) /\ UNCHANGED twin
    \/ \E p \in ListenerProcs : BeginCloseListener(p) /\ UNCHANGED twin
    \/ \E p \in ListenerProcs, ok \in BOOLEAN : CloseListenerStep(p, ok) /\ UNCHANGED twin

Spec == Init /\ [][Next]_vars

\* a step of an operation that has been called, its transport call succeeding
\* where it can: the thread or task inside an operation goes on running, and a
\* transport call that can complete does complete
Progress ==
    \/ \E p \in ConnProcs, v \in Payloads : BeginSend(p, v) /\ UNCHANGED twin
    \/ \E p \in ConnProcs :
          \E n \in WriteSizes(task[p].buf) :
             WriteStep(p, n, ~Eof(Inst(p))) /\ UNCHANGED twin
    \/ \E p \in ConnProcs : FlushStep(p, TRUE) /\ UNCHANGED twin
    \/ \E p \in ConnProcs : BeginReceive(p) /\ UNCHANGED twin
    \/ \E p \in ConnProcs : ReadLen(p, TRUE) /\ UNCHANGED twin
    \/ \E p \in ConnProcs, ty \in Types : ReadBody(p, ty, TRUE) /\ UNCHANGED twin
    \/ \E p \in ConnProcs : BeginClose(p) /\ UNCHANGED twin
    \/ \E p \in Procs : DropShared(p) /\ UNCHANGED twin
    \/ \E p \in Procs : IsClosed(p) /\ UNCHANGED twin
    \/ \E p \in ListenerProcs : BeginAccept(p) /\ UNCHANGED twin
    \/ \E p \in ListenerProcs : AcceptStep(p, TRUE) /\ UNCHANGED twin
    \/ \E p \in ListenerProcs : BeginCloseListener(p) /\ UNCHANGED twin
    \/ \E p \in ListenerProcs : CloseListenerStep(p, TRUE) /\ UNCHANGED twin

\* the program with its operations running on
SpecLive == Spec /\ WF_vars(Progress)

(***************************************************************************)
(* The two forms side by side. A is built from the exclusive form and B    *)
(* from the shared form; they are the two ends of one established stream,  *)
(* so each is the transport of the other. Both start Open, and in each     *)
(* round the callers call the same operation with the same payload and     *)
(* result type on both, A first, with no transport failure. As long as the *)
(* two forms have written the same frames, each finds on its stream what   *)
(* the other finds, and the transports behave identically.                 *)
(***************************************************************************)

TwinOps == {"send", "receive", "send_and_receive", "close"}

InitTwin ==
    /\ form = [i \in Insts |-> IF i = "B" THEN "async" ELSE "sync"]
    /\ closed = [i \in Insts |-> FALSE]
    /\ nclose = [i \in Insts |-> 0]
    /\ life = [i \in Insts |-> "live"]
    /\ backlog = FALSE
    /\ inner = [i \in Insts |-> "none"]
    /\ wire = [c \in Conns |-> <<>>]
    /\ task = [p \in Procs |-> Idle]
    /\ ret = NoRet
    /\ calls = 0
    /\ faults = 0
    /\ twin = [TwinOff EXCEPT !.turn = "call"]

\* the callers call op(v) -> ty on A and on B
TwinCall(op, v, ty) ==
    /\ twin.turn \in {"call", "compare"}
    /\ calls + faults < MaxEvents
    /\ CanCall("A1", op) /\ CanCall("B1", op)
    /\ task' = [task EXCEPT !["A1"] = Called(op), !["B1"] = Called(op)]
    /\ calls' = calls + 1
    /\ ret' = NoRet
    /\ twin' = [turn |-> "A", op |-> op, v |-> v, ty |-> ty, res |-> NoRes]
    /\ UNCHANGED <<form, closed, nclose, life, backlog, inner, wire, faults>>

\* one step of the operation of p, every transport call succeeding
TwinStep(p) ==
    \/ BeginSend(p, twin.v)
    \/ WriteStep(p, Len(task[p].buf), TRUE)
    \/ FlushStep(p, TRUE)
    \/ BeginReceive(p)
    \/ ReadLen(p, TRUE)
    \/ ReadBody(p, twin.ty, TRUE)
    \/ BeginClose(p)

\* A runs its operation; its result is kept for the comparison
Lead ==
    /\ twin.turn = "A"
    /\ TwinStep("A1")
    /\ twin' = IF ret'.p = "A1"
               THEN [twin EXCEPT !.turn = "B", !.res = ret'.res]
               ELSE twin

\* then B runs the same operation
Follow ==
    /\ twin.turn = "B"
    /\ TwinStep("B1")
    /\ twin' = IF ret'.p = "B1" THEN [twin EXCEPT !.turn = "compare"] ELSE twin

NextTwin ==
    \/ \E op \in TwinOps, v \in Payloads, ty \in Types : TwinCall(op, v, ty)
    \/ Lead
    \/ Follow

SpecTwin == InitTwin /\ [][NextTwin]_vars

(***************************************************************************)
(* The envelope writer and reader on a finite stream: Message::write_to    *)
(* into an empty stream, the stream ending after some of the bytes or      *)
(* after all of them, and Message::read_from on what is there.             *)
(***************************************************************************)

\* longest String of the payloads written
MaxText == 2

TextCodes == {68, 113}

Texts == UNION {[1..n -> TextCodes] : n \in 0..MaxText}

\* the payloads written: every short unsigned integer, short Strings, the
\* Strings that spell the variant names, (), and a Message as a payload
CodecPayloads ==
    {UInt(n) : n \in 0..CborSmallMax}
    \cup {Text(t) : t \in Texts \cup {NameClosingConnection, NameData}}
    \cup {Unit}
    \cup {[k |-> "msg", m |-> ClosingConnection], [k |-> "msg", m |-> Data(UInt(5))]}

\* the type of a payload
RECURSIVE TypeOf(_)
TypeOf(v) ==
    IF v.k = "msg"
    THEN <<"msg">> \o (IF v.m.tag = "Data" THEN TypeOf(v.m.data) ELSE <<"unit">>)
    ELSE <<v.k>>

\* a read that hands out the bytes that are there when the stream ends early
raw_read_from_Short(stream) ==
    IF Len(stream) < PrefixLen
    THEN [ok |-> TRUE, raw |-> <<>>]
    ELSE [ok |-> TRUE,
          raw |-> Take(Drop(stream, PrefixLen), read_u64(Take(stream, PrefixLen)))]

\* raw::read_from on a stream that ends after its last byte: read_u64 and
\* read_exact fail (UnexpectedEof) when the bytes are not all there
raw_read_from(stream) ==
    IF Len(stream) < PrefixLen
    THEN [ok |-> FALSE, raw |-> <<>>]
    ELSE LET size == read_u64(Take(stream, PrefixLen))
             body == Drop(stream, PrefixLen)
         IN  IF Len(body) < size
             THEN [ok |-> FALSE, raw |-> <<>>]
             ELSE [ok |-> TRUE, raw |-> Take(body, size)]

\* Message::<ty>::read_from: the Message read, as a value, or the error
Message_read_from(stream, ty) ==
    LET r == raw_read_from(stream)
        d == from_reader(r.raw, ty)
    IN  IF ~r.ok THEN Err("Io")
        ELSE IF ~d.ok THEN Err("Deserialise")
        ELSE Ok([k |-> "msg", m |-> d.msg])

\* Message::write_to into a writer that takes every byte: the bytes written
Message_write_to(m) ==
    LET s == into_writer(m)
    IN  IF s.ok THEN serialised_vec(s.bytes) ELSE <<>>

\* the Message of the run
CodecMessage == IF twin.op = "Data" THEN Data(twin.v) ELSE ClosingConnection

InitCodec ==
    /\ form \in {[i \in Insts |-> f] : f \in Forms}
    /\ closed = [i \in Insts |-> FALSE]
    /\ nclose = [i \in Insts |-> 0]
    /\ life = [i \in Insts |-> "live"]
    /\ backlog = FALSE
    /\ inner = [i \in Insts |-> "none"]
    /\ wire = [c \in Conns |-> <<>>]
    /\ task = [p \in Procs |-> Idle]
    /\ ret = NoRet
    /\ calls = 0
    /\ faults = 0
    /\ twin \in {[turn |-> "write", op |-> "Data", v |-> v, ty |-> TypeOf(v), res |-> NoRes] :
                    v \in CodecPayloads}
               \cup {[turn |-> "write", op |-> "ClosingConnection", v |-> Unit,
                      ty |-> <<"unit">>, res |-> NoRes]}

\* A writes the Message to the stream B reads
CodecWrite ==
    /\ twin.turn = "write"
    /\ wire' = [wire EXCEPT !["B"] = Message_write_to(CodecMessage)]
    /\ twin' = [twin EXCEPT !.turn = "sent"]
    /\ UNCHANGED <<form, closed, nclose, life, backlog, inner, task, ret, calls, faults>>

\* the stream ends after k of the bytes: all of them (whole) or fewer (cut)
CodecEnd(k) ==
    /\ twin.turn = "sent"
    /\ k \in 0..Len(wire["B"])
    /\ wire' = [wire EXCEPT !["B"] = Take(@, k)]
    /\ twin' = [twin EXCEPT !.turn = IF k = Len(wire["B"]) THEN "whole" ELSE "cut"]
    /\ UNCHANGED <<form, closed, nclose, life, backlog, inner, task, ret, calls, faults>>

\* B reads a Message of the type written
CodecRead ==
    /\ twin.turn \in {"whole", "cut"}
    /\ twin' = [twin EXCEPT !.turn = IF twin.turn = "whole" THEN "read_whole" ELSE "read_cut",
                            !.res = Message_read_from(wire["B"], twin.ty)]
    /\ UNCHANGED <<form, closed, nclose, life, backlog, inner, wire, task, ret, calls, faults>>

NextCodec ==
    \/ CodecWrite
    \/ \E k \in 0..Len(wire["B"]) : CodecEnd(k)
    \/ CodecRead

SpecCodec == InitCodec /\ [][NextCodec]_vars

(***************************************************************************)
(* The example programs: a listener, the Connection B it accepts and the   *)
(* client's Connection A, all of one form, each running its program: the   *)
(* calls of examples/sync and examples/async-tokio, one after the other,   *)
(* the three programs side by side. No transport call fails. twin keeps    *)
(* the script, the two payloads, how far each program is (at) and the      *)
(* results its calls returned (got).                                       *)
(***************************************************************************)

Scripts == {"greeting", "request", "stream", "shared"}

DialogueProcs == {"A1", "A2", "B1", "L1"}

\* the payloads of the examples: what serialises
DialoguePayloads == {v \in Payloads : CanSerialise(v)}

\* a call of a program: the operation, the payload it sends and the payload
\* whose type it asks receive() for
Step(op, v, expect) == [op |-> op, v |-> v, expect |-> expect]

\* "greeting": the listener's Connection sends x, the client receives it and
\* sends y, the listener's Connection receives it, both close (client.rs
\* 16-21 and 34, listener.rs 14-24 and 50-55). "request": the client calls
\* send_and_receive(x), the listener's Connection receives and sends y
\* (client.rs 28, listener.rs 29-36). "stream": the client sends x, then y,
\* and closes (client.rs 21, 30, 34); the listener's Connection receives
\* three times (listener.rs 24, 29), the first time asking for the type of z.
\* "shared": the request, with a second task of the client that shares the
\* Connection (its form allowing), receives and closes.
Program(p) ==
    CASE twin.script = "greeting" ->
           ( CASE p = "A1" -> << Step("receive", Unit, twin.x), Step("send", twin.y, Unit),
                                 Step("close", Unit, Unit) >>
               [] p = "B1" -> << Step("send", twin.x, Unit), Step("receive", Unit, twin.y),
                                 Step("close", Unit, Unit) >>
               [] p = "L1" -> << Step("accept", Unit, Unit), Step("close", Unit, Unit) >>
               [] OTHER -> << >> )
      [] twin.script = "request" ->
           ( CASE p = "A1" -> << Step("send_and_receive", twin.x, twin.y) >>
               [] p = "B1" -> << Step("receive", Unit, twin.x), Step("send", twin.y, Unit) >>
               [] p = "L1" -> << Step("accept", Unit, Unit) >>
               [] OTHER -> << >> )
      [] twin.script = "shared" ->
           ( CASE p = "A1" -> << Step("send_and_receive", twin.x, twin.y) >>
               [] p = "A2" -> << Step("receive", Unit, twin.y), Step("close", Unit, Unit) >>
               [] p = "B1" -> << Step("receive", Unit, twin.x), Step("send", twin.y, Unit) >>
               [] OTHER -> << Step("accept", Unit, Unit) >> )
      [] OTHER ->
           ( CASE p = "A1" -> << Step("send", twin.x, Unit), Step("send", twin.y, Unit),
                                 Step("close", Unit, Unit) >>
               [] p = "B1" -> << Step("receive", Unit, twin.z), Step("receive", Unit, twin.y),
                                 Step("receive", Unit, twin.y) >>
               [] p = "L1" -> << Step("accept", Unit, Unit) >>
               [] OTHER -> << >> )

InitDialogue ==
    /\ form \in {[i \in Insts |-> f] : f \in Forms}
    /\ closed = [i \in Insts |-> FALSE]
    /\ nclose = [i \in Insts |-> 0]
    /\ life = [i \in Insts |-> IF i \in Listeners THEN "live" ELSE "none"]
    /\ backlog = FALSE
    /\ inner = [i \in Insts |-> "none"]
    /\ wire = [c \in Conns |-> <<>>]
    /\ task = [p \in Procs |-> Idle]
    /\ ret = NoRet
    /\ calls = 0
    /\ faults = 0
    /\ twin \in [turn : {"dialogue"}, script : Scripts,
                 x : DialoguePayloads, y : DialoguePayloads, z : DialoguePayloads,
                 at : {[p \in DialogueProcs |-> 0]},
                 got : {[p \in DialogueProcs |-> <<>>]},
                 connected : {NoRes}]
    /\ twin.script # "stream" => twin.z = twin.x

\* the client connects
DialogueConnect ==
    /\ twin.turn = "dialogue"
    /\ Connect("A", TRUE)
    /\ twin' = [twin EXCEPT !.connected = ret'.res]

\* p calls the next operation of its program
DialogueCall(p) ==
    /\ twin.turn = "dialogue"
    /\ twin.at[p] < Len(Program(p))
    /\ CanCall(p, Program(p)[twin.at[p] + 1].op)
    /\ task' = [task EXCEPT ![p] = Called(Program(p)[twin.at[p] + 1].op)]
    /\ ret' = NoRet
    /\ twin' = [twin EXCEPT !.at[p] = @ + 1]
    /\ UNCHANGED <<form, closed, nclose, life, backlog, inner, wire, calls, faults>>

\* one step of the operation p is in; its result is kept when it returns
DialogueStep(p) ==
    /\ twin.turn = "dialogue"
    /\ twin.at[p] > 0
    /\ LET s == Program(p)[twin.at[p]]
       IN  IF p \in ConnProcs
           THEN \/ BeginSend(p, s.v)
                \/ \E n \in WriteSizes(task[p].buf) : WriteStep(p, n, TRUE)
                \/ FlushStep(p, TRUE)
                \/ BeginReceive(p)
                \/ ReadLen(p, TRUE)
                \/ ReadBody(p, TypeOf(s.expect), TRUE)
                \/ BeginClose(p)
           ELSE \/ BeginAccept(p)
                \/ AcceptStep(p, TRUE)
                \/ BeginCloseListener(p)
                \/ CloseListenerStep(p, TRUE)
    /\ twin' = IF ret'.p = p THEN [twin EXCEPT !.got[p] = Append(@, ret'.res)] ELSE twin

NextDialogue ==
    \/ DialogueConnect
    \/ \E p \in DialogueProcs : DialogueCall(p)
    \/ \E p \in DialogueProcs : DialogueStep(p)

\* every program goes on while it can take a step
SpecDialogue == InitDialogue /\ [][NextDialogue]_vars /\ WF_vars(NextDialogue)

(***************************************************************************)
(* Properties. ret is the operation that returned in the last step: its    *)
(* result ret.res, the closed flag it found (ret.was) and the transport    *)
(* primitives it invoked (ret.io).                                         *)
(***************************************************************************)

\* the frame close() sends: the length prefix and the encoding of Message::ClosingConnection
ClosingFrame == serialised_vec(into_writer(ClosingConnection).bytes)

\* the bytes of its stream that the receive() of q has not decoded yet
Unread(q) ==
    IF task[q].pc = "read_body"
    THEN write_u64(task[q].need) \o wire[Inst(q)]
    ELSE wire[Inst(q)]

\* q is inside the transport read of a receive()
Reading(q) == task[q].op = "receive" /\ task[q].pc \in {"read_len", "read_body"}

\* C1: when close() of an Open connection has returned, no transport call
\* having failed, while the peer is blocked in receive() with no data frame
\* on its stream, the peer's stream holds the ClosingConnection frame, which
\* its receive() turns into Closed(true); in either form.
C1_ShutdownSignal ==
    \A p \in ConnProcs, q \in ConnProcs :
        ( /\ Inst(q) = Peer(Inst(p))
          /\ ret.p = p /\ ret.op = "close" /\ ~ret.was
          /\ faults = 0
          /\ Reading(q)
          /\ Unread(q) \in {<<>>, ClosingFrame} )
        => Unread(q) = ClosingFrame

\* C2: after the same operation with the same arguments has run on an
\* instance of each form, from the same state and on transports that behaved
\* identically, both returned the same result and wrote the same frames.
C2_FormsAgree ==
    twin.turn = "compare" => /\ ret.res = twin.res
                             /\ wire["A"] = wire["B"]

\* C3: a close() of a Connection that is already closed returns Ok(()),
\* invokes no transport primitive (no frame, no close) and leaves it closed.
C3_CloseIdempotent ==
    \A p \in ConnProcs :
        (ret.p = p /\ ret.op = "close" /\ ret.was)
        => /\ ret.res = Ok(Unit)
           /\ ret.io = {}
           /\ closed[Inst(p)]
           /\ nclose[Inst(p)] = 1

C3_Witness ==
    \E p \in ConnProcs : ret.p = p /\ ret.op = "close" /\ ret.was

\* C4: the first close() of an Open Listener invokes the transport close once
\* and returns its result; every later close() returns Closed(false) and does
\* not invoke the transport close again.
C4_ListenerCloseOnce ==
    [][\A p \in ListenerProcs :
          LET l == Inst(p)
          IN  (ret'.p = p /\ ret'.op = "close")
              => IF ret'.was
                 THEN /\ ret'.res = Closed(FALSE)
                      /\ ret'.io = {}
                      /\ nclose'[l] = nclose[l]
                 ELSE /\ ret'.res = IF faults' = faults THEN Ok(Unit) ELSE Err("Io")
                      /\ ret'.io = {"close"}
                      /\ nclose'[l] = nclose[l] + 1
                      /\ nclose[l] = 0]_vars

C4_Witness ==
    \E p \in ListenerProcs :
        ret.p = p /\ ret.op = "close" /\ ret.was /\ nclose[Inst(p)] = 1

\* C5: on a closed instance, send() and receive() of a Connection and accept()
\* of a Listener return Closed(false) and invoke no transport primitive.
C5_PostCloseGuard ==
    \A p \in Procs :
        (ret.p = p /\ ret.op \in {"send", "receive", "accept"} /\ ret.was)
        => /\ ret.res = Closed(FALSE)
           /\ ret.io = {}

C5_Witness ==
    \E p \in ConnProcs :
        ret.p = p /\ ret.op = "receive" /\ ret.was /\ ret.res = Closed(FALSE)

\* C6: every instance starts with closed = false, and a closed flag that is
\* true is true in every later state.
C6_OneWayClosing ==
    /\ \A i \in Insts : ~closed[i]
    /\ [][\A i \in Insts : closed[i] => closed'[i]]_vars

C6_Witness ==
    \E l \in Listeners :
        closed[l] /\ ret.op = "close" /\ Inst(ret.p) = l /\ ret.res = Err("Io")

\* the outcomes of the receive() of p once the frame raw is read, for the
\* result types the caller may ask for
DecodedAs(p, raw, r) ==
    \E ty \in Types :
        LET d == from_reader(raw, ReceiveType(p, ty))
        IN  r = IF ~d.ok THEN Err("Deserialise")
                ELSE IF d.msg = ClosingConnection THEN Closed(TRUE)
                ELSE Ok(d.msg.data)

\* C7: when receive() on an Open connection has read a frame, a frame that
\* decodes to Data(t) makes it return t and leaves the connection Open; a
\* ClosingConnection frame makes it close the transport, set closed and return
\* Closed(true), never Ok.
C7_ReceiveMatch ==
    [][\A p \in ConnProcs :
          LET c == Inst(p)
              raw == Take(wire[c], task[p].need)
          IN  ( /\ task[p].op = "receive" /\ task[p].pc = "read_body"
                /\ Len(wire[c]) >= task[p].need
                /\ ret'.p = p /\ faults' = faults )
              => /\ ~task[p].was /\ ~closed[c]
                 /\ DecodedAs(p, raw, ret'.res)
                 /\ IF raw = Drop(ClosingFrame, PrefixLen)
                    THEN /\ ret'.res = Closed(TRUE)
                         /\ closed'[c]
                         /\ nclose'[c] = nclose[c] + 1
                         /\ "close" \in ret'.io
                    ELSE /\ ret'.res # Closed(TRUE)
                         /\ ~closed'[c]
                         /\ nclose'[c] = nclose[c]
                         /\ "close" \notin ret'.io]_vars

C7_Witness ==
    \E p \in ConnProcs :
        /\ ret.p = p /\ ret.op = "receive" /\ ~ret.was
        /\ ret.res = Closed(TRUE) /\ closed[Inst(p)]

\* the step of p is a transport write or flush that failed
SendFailed(p) ==
    \/ task[p].pc = "write" /\ task'[p] # task[p] /\ wire' = wire
    \/ task[p].pc = "flush" /\ task'[p] # task[p] /\ faults' # faults

\* C8: no step of send() on an Open connection changes the closed flag or
\* closes the transport, whether the write succeeds or the write or the flush
\* fails; a failure is returned to the caller as Io.
C8_SendKeepsState ==
    [][\A p \in ConnProcs :
          LET c == Inst(p)
          IN  (task[p].op = "send" /\ ~closed[c] /\ task'[p] # task[p])
              => /\ ~closed'[c]
                 /\ nclose'[c] = nclose[c]
                 /\ life'[c] = life[c]
                 /\ ret'.p = p => "close" \notin ret'.io
                 /\ SendFailed(p) => ret'.p = p /\ ret'.res = Err("Io")
                 /\ (task[p].pc = "flush" /\ ~SendFailed(p))
                       => ret'.p = p /\ ret'.res = Ok(Unit)]_vars

C8_Witness ==
    \E p \in ConnProcs :
        /\ ret.p = p /\ ret.op = "send" /\ ~ret.was
        /\ ret.res = Err("Io") /\ ~closed[Inst(p)] /\ nclose[Inst(p)] = 0

\* the step of p ends the send of send_and_receive with an error: the closed
\* check, the encoding, the write or the flush failed
SendHalfFailed(p) ==
    \/ task[p].pc = "lock" /\ task'[p].pc # "write"
    \/ SendFailed(p)

\* r is what receive() returns when the step of p ends it
ReceiveReturns(p, r) ==
    LET c == Inst(p)
    IN  \/ task[p].pc = "lock" /\ closed[c] /\ r = Closed(FALSE)
        \/ task[p].pc \in {"read_len", "read_body"} /\ r = Err("Io")
        \/ /\ task[p].pc = "read_body"
           /\ Len(wire[c]) >= task[p].need
           /\ DecodedAs(p, Take(wire[c], task[p].need), r)

\* C9: send_and_receive is send followed by receive: when the send fails
\* (Closed(false), Serialise or Io) that error is returned and nothing is read;
\* when it succeeds receive() is called and its result is the result.
C9_SendThenReceive ==
    [][\A p \in ConnProcs :
          LET c == Inst(p)
          IN  (task[p].op = "send_and_receive" /\ task'[p] # task[p])
              => IF task[p].half = "send"
                 THEN /\ wire'[c] = wire[c]
                      /\ IF SendHalfFailed(p)
                         THEN /\ ret'.p = p
                              /\ ret'.res \in {Closed(FALSE), Err("Serialise"), Err("Io")}
                              /\ ret'.res = Closed(FALSE) <=> closed[c]
                              /\ "read" \notin ret'.io
                         ELSE /\ ret'.p # p
                              /\ task[p].pc = "flush"
                                    => /\ task'[p].half = "recv"
                                       /\ task'[p].pc = "lock"
                 ELSE ret'.p = p => ReceiveReturns(p, ret'.res)]_vars

C9_Witness ==
    \E p \in ConnProcs :
        /\ ret.p = p /\ ret.op = "send_and_receive"
        /\ ret.res.kind = "Ok" /\ {"flush", "read"} \subseteq ret.io

\* C10: close() of an Open connection, in either form, first attempts to
\* write one ClosingConnection frame, then closes the transport and sets
\* closed; it returns Ok(()) whether or not the write failed.
C10_CloseSendsFirst ==
    \A p \in ConnProcs :
        (ret.p = p /\ ret.op = "close" /\ ~ret.was)
        => /\ ret.res = Ok(Unit)
           /\ {"write", "close"} \subseteq ret.io
           /\ closed[Inst(p)]
           /\ nclose[Inst(p)] = 1

\* C11: a Message written by the envelope writer (encoding, 8-byte big-endian
\* length prefix, write) and read whole by the envelope reader is the Message
\* written: Data(v) for every payload v, ClosingConnection for
\* ClosingConnection.
C11_RoundTrip ==
    twin.turn = "read_whole" => twin.res = Ok([k |-> "msg", m |-> CodecMessage])

C11_Witness ==
    /\ twin.turn = "read_whole"
    /\ twin.op = "Data" /\ twin.v = Text(NameClosingConnection)
    /\ twin.res.kind = "Ok"

\* C12: when the stream ends before the whole prefix or before the whole
\* payload the prefix announces, the reader fails with Io and returns no
\* payload.
C12_TruncatedFrame ==
    twin.turn = "read_cut" => twin.res = Err("Io")

C12_Witness ==
    /\ twin.turn = "read_cut"
    /\ Len(wire["B"]) > PrefixLen
    /\ twin.res = Err("Io")

\* the frames send() and close() write
ValidFrames ==
    {serialised_vec(into_writer(Data(v)).bytes) : v \in {x \in Payloads : CanSerialise(x)}}
    \cup {ClosingFrame}

\* what is left of the bytes b after the whole frames at its head
RECURSIVE Remainder(_)
Remainder(b) ==
    IF /\ Len(b) >= PrefixLen
       /\ Len(b) >= PrefixLen + read_u64(Take(b, PrefixLen))
       /\ Take(b, PrefixLen + read_u64(Take(b, PrefixLen))) \in ValidFrames
    THEN Remainder(Drop(b, PrefixLen + read_u64(Take(b, PrefixLen))))
    ELSE b

\* the bytes written to c that no receive() has returned or failed on yet
StreamOf(c) ==
    IF \E q \in ProcsOf(c) : task[q].pc = "read_body"
    THEN write_u64(task[CHOOSE q \in ProcsOf(c) : task[q].pc = "read_body"].need) \o wire[c]
    ELSE wire[c]

\* C13: in the shared form, with tasks sending concurrently on one Connection
\* and no write failing, the bytes on the transport are whole frames, followed
\* (while a task is inside its write) by the part of that task's frame it has
\* written so far; no frame is cut by bytes of another.
C13_NoInterleaving ==
    \A c \in Conns :
        (form[c] = "async" /\ faults = 0 /\ ~Eof(c))
        => LET rest == Remainder(StreamOf(Peer(c)))
               writers == {p \in ProcsOf(c) : task[p].pc = "write"}
           IN  /\ writers = {} => rest = <<>>
               /\ \A p \in writers : rest \o task[p].buf \in ValidFrames

C13_Witness ==
    /\ form["A"] = "async"
    /\ task["A1"].op = "send" /\ task["A1"].pc = "write" /\ "write" \in task["A1"].io
    /\ task["A2"].op = "send" /\ task["A2"].pc = "lock"
    /\ Len(wire["B"]) > PrefixLen

\* the tasks inside an operation of instance i, past taking its guard
Inside(i) == {p \in ProcsOf(i) : task[p].pc \notin {"idle", "lock"}}

\* at most one task is inside an operation of an instance, it is the holder of
\* the guard, and no task outside holds it
GuardHeld ==
    \A i \in Insts :
        /\ \A p \in Inside(i), q \in Inside(i) : p = q
        /\ \A p \in Inside(i) : inner[i] = p
        /\ inner[i] # "none" => inner[i] \in Inside(i)

\* C14: every operation takes the single guard of its instance before it
\* reads or writes the closed flag or the transport, holds it until it returns
\* and releases it on every return, errors included; two operations of one
\* instance never hold the guard together.
C14_MutualExclusion ==
    /\ GuardHeld
    /\ [][/\ GuardHeld'
          /\ \A i \in Insts :
                ( \/ closed'[i] # closed[i]
                  \/ nclose'[i] # nclose[i]
                  \/ i \in Conns /\ wire'[i] # wire[i] /\ Len(wire'[i]) <= Len(wire[i])
                  \/ i \in Conns /\ Len(wire'[Peer(i)]) > Len(wire[Peer(i)]) )
                => \E p \in ProcsOf(i) :
                      /\ task'[p] # task[p]
                      /\ \/ inner[i] = p
                         \/ inner[i] = "none" /\ task[p].pc = "lock"
          /\ \A p \in Procs :
                ret'.p = p => inner'[Inst(p)] = "none"]_vars

C14_Witness ==
    \E l \in Listeners :
        /\ form[l] = "async"
        /\ inner[l] = "L1" /\ task["L1"].pc = "accept"
        /\ task["L2"].op = "close" /\ task["L2"].pc = "lock"

\* the step returns from the operation of p
Returned(p) == ret'.p = p /\ task[p].pc # "idle" /\ task'[p].pc = "idle"

\* the operations that answer a closed instance with Closed(false)
Guarded(p) ==
    \/ task[p].op \in {"send", "receive", "accept"}
    \/ task[p].op = "close" /\ Inst(p) \in Listeners

\* C15 as stated: an operation (send, receive, close, accept) returns
\* Closed(false) exactly when the closed flag was already true when it started.
C15_ClosedFalseExactly ==
    ret.op \in {"send", "receive", "close", "accept"}
        => (ret.res = Closed(FALSE) <=> ret.was)

\* C15, amended: send, receive, accept and Listener.close return Closed(false)
\* exactly when they found the closed flag true (Connection.close returns Ok
\* then, and never Closed; send_and_receive returns Closed(false) exactly when
\* its send or its receive found the flag true); Closed(true) is returned only
\* by the receive of a Connection that was Open and consumed a
\* ClosingConnection frame, and it closes the Connection, which never reopens:
\* at most once per Connection; send, close and accept never return it.
C15_Classification ==
    [][/\ \A i \in Insts : closed[i] => closed'[i]
       /\ \A p \in Procs :
            Returned(p) =>
              LET i == Inst(p)
                  t == task[p]
                  r == ret'.res
              IN  /\ Guarded(p) => (r = Closed(FALSE) <=> ret'.was)
                  /\ (t.op = "close" /\ i \in Conns)
                        => /\ r.kind # "Closed"
                           /\ ret'.was => r = Ok(Unit)
                  /\ t.op = "send_and_receive"
                        => ( r = Closed(FALSE)
                             <=> \/ ret'.was
                                 \/ t.half = "recv" /\ t.pc = "lock" /\ closed[i] )
                  /\ t.op \in {"is_closed", "drop"} => r.kind # "Closed" \/ i \in Listeners
                  /\ r = Closed(TRUE)
                        => /\ i \in Conns
                           /\ t.op \in {"receive", "send_and_receive"}
                           /\ t.op = "send_and_receive" => t.half = "recv"
                           /\ t.pc = "read_body"
                           /\ Take(wire[i], t.need) = Drop(ClosingFrame, PrefixLen)
                           /\ wire'[i] = Drop(wire[i], t.need)
                           /\ ~closed[i] /\ closed'[i]]_vars

C15_Witness ==
    \E c \in Conns :
        /\ ret.res = Closed(TRUE) /\ Inst(ret.p) = c
        /\ ~ret.was /\ closed[c] /\ nclose[c] = 1 /\ wire[c] = <<>>

\* every program of the dialogue has run to its end
Done == \A p \in DialogueProcs : twin.at[p] = Len(Program(p)) /\ task[p].pc = "idle"

\* the results so far are the first of the results expected
AsExpected(p, expected) ==
    /\ Len(twin.got[p]) <= Len(expected)
    /\ \A k \in 1..Len(twin.got[p]) : twin.got[p][k] = expected[k]

\* C16: in either form, the client connects and the listener accepts it, the
\* listener's Connection sends a greeting that the client receives, the client
\* sends one that the listener's Connection receives, and both close: every
\* connect, accept, send and receive returns success, every value received is
\* the value sent, no error is reported, and both peers end Closed.
C16_HappyPath ==
    /\ [](twin.script = "greeting" =>
            /\ twin.connected \in {NoRes, Ok(Bool(FALSE))}
            /\ AsExpected("A1", <<Ok(twin.x), Ok(Unit), Ok(Unit)>>)
            /\ AsExpected("B1", <<Ok(Unit), Ok(twin.y), Ok(Unit)>>)
            /\ AsExpected("L1", <<Ok(Bool(FALSE)), Ok(Unit)>>)
            /\ Done => closed["A"] /\ closed["B"])
    /\ <>(twin.script = "greeting" => Done)

C16_Witness ==
    /\ twin.turn = "dialogue" /\ twin.script = "greeting" /\ Done
    /\ twin.x # twin.y
    /\ twin.got["A1"][1] = Ok(twin.x) /\ twin.got["B1"][2] = Ok(twin.y)
    /\ closed["A"] /\ closed["B"]

\* C17: in either form, when the client calls send_and_receive(q) and the
\* listener's Connection calls receive() and then send(r), that receive()
\* returns q and the client's send_and_receive returns r, with no Deserialise
\* error.
C17_RequestResponse ==
    twin.script = "request" =>
        /\ AsExpected("A1", <<Ok(twin.y)>>)
        /\ AsExpected("B1", <<Ok(twin.x), Ok(Unit)>>)

\* C18: in the exclusive form, dropping an Open Connection does what close()
\* does: it attempts to write the ClosingConnection frame, then closes the
\* transport, so that a peer blocked in receive() gets Closed(true); dropping
\* a Closed Connection writes nothing and does not close the transport again;
\* dropping a Listener closes its transport only if it was Open and otherwise
\* discards the Closed(false) of its close().
C18_CloseOnDrop ==
    /\ [](\A p \in ConnProcs, q \in ConnProcs :
            ( /\ Inst(q) = Peer(Inst(p)) /\ form[Inst(p)] = "sync"
              /\ ret.p = p /\ ret.op = "drop" /\ ~ret.was
              /\ faults = 0
              /\ Reading(q)
              /\ Unread(q) \in {<<>>, ClosingFrame} )
            => Unread(q) = ClosingFrame)
    /\ [][\A p \in Procs :
            LET i == Inst(p)
                t == task[p]
            IN  /\ ( form[i] = "sync" /\ t.op = "drop" /\ i \in Conns
                     /\ t.pc = "lock" /\ task'[p] # t /\ ~closed[i] )
                   => /\ task'[p].pc = "write" /\ task'[p].buf = ClosingFrame
                      /\ nclose' = nclose /\ closed' = closed
                /\ (form[i] = "sync" /\ t.op = "drop" /\ Returned(p))
                   => /\ life'[i] = "dropped"
                      /\ closed'[i]
                      /\ IF ret'.was
                         THEN /\ ret'.io = {}
                              /\ nclose'[i] = nclose[i]
                              /\ wire' = wire
                              /\ i \in Listeners => ret'.res = Closed(FALSE)
                         ELSE /\ "close" \in ret'.io
                              /\ nclose'[i] = nclose[i] + 1
                              /\ i \in Conns => "write" \in ret'.io
                /\ ( /\ i \in Conns /\ form[i] = "sync" /\ life[Peer(i)] = "dropped"
                     /\ Reading(p) /\ Unread(p) = ClosingFrame
                     /\ Returned(p) /\ faults' = faults )
                   => ret'.res = Closed(TRUE)]_vars

C18_Witness ==
    \E q \in ConnProcs :
        /\ form[Inst(q)] = "sync" /\ life[Peer(Inst(q))] = "dropped"
        /\ closed[Peer(Inst(q))] /\ nclose[Peer(Inst(q))] = 1
        /\ ret.p = q /\ ret.op = "receive" /\ ret.res = Closed(TRUE)

\* C19: accept() on an Open listener waits until the transport yields a stream
\* and returns a new Connection whose closed flag is false; no step of
\* accept(), successful or failed, changes the listener's state, and only
\* close() or a drop makes a listener Closed.
C19_AcceptKeepsOpen ==
    [][/\ \A p \in ListenerProcs :
            LET l == Inst(p)
            IN  (task[p].op = "accept" /\ task'[p] # task[p])
                => /\ closed'[l] = closed[l]
                   /\ nclose'[l] = nclose[l]
                   /\ (Returned(p) /\ ret'.res.kind = "Ok")
                      => /\ ~ret'.was /\ ~closed[l]
                         /\ backlog /\ ~backlog'
                         /\ ret'.res = Ok(Bool(FALSE))
                         /\ life'["B"] = "live" /\ ~closed'["B"]
       /\ \A l \in Listeners :
            closed'[l] # closed[l]
            => /\ closed'[l]
               /\ \E p \in ProcsOf(l) :
                     task[p].op \in {"close", "drop"} /\ task'[p] # task[p]]_vars

C19_Witness ==
    \E l \in Listeners :
        /\ ret.op = "accept" /\ Inst(ret.p) = l /\ ret.res = Ok(Bool(FALSE))
        /\ faults = 1 /\ calls = 2 /\ ~closed[l] /\ nclose[l] = 0
        /\ \A p \in ProcsOf(l) : task[p].pc = "idle"

\* C20: Listener.close() on an Open listener sets closed before it closes the
\* transport and returns the transport's close error when there is one; the
\* listener is Closed after a close() that returned an error, and accept()
\* and close() on it return Closed(false).
C20_ListenerCloseEitherWay ==
    [][\A p \in ListenerProcs :
          LET l == Inst(p)
              t == task[p]
          IN  /\ (t.op = "close" /\ t.pc = "lock" /\ task'[p] # t /\ ~closed[l])
                 => /\ task'[p].pc = "close_internal"
                    /\ closed'[l]
                    /\ nclose'[l] = nclose[l]
              /\ (t.op = "close" /\ t.pc = "close_internal" /\ task'[p] # t)
                 => /\ closed[l] /\ closed'[l]
                    /\ nclose'[l] = nclose[l] + 1
                    /\ Returned(p)
                    /\ ret'.res = IF faults' = faults THEN Ok(Unit) ELSE Err("Io")
              /\ (t.op \in {"accept", "close"} /\ Returned(p) /\ closed[l] /\ t.pc = "lock")
                 => /\ ret'.res = Closed(FALSE)
                    /\ ret'.io = {}
                    /\ closed'[l] /\ nclose'[l] = nclose[l]]_vars

C20_Witness ==
    \E l \in Listeners :
        /\ ret.op = "accept" /\ Inst(ret.p) = l /\ ret.res = Closed(FALSE)
        /\ closed[l] /\ nclose[l] = 1 /\ faults = 1 /\ calls = 2
        /\ life["A"] = "none"

\* the bytes written to c are whole frames, followed by what the task inside
\* a write to c has written of its frame so far
WholeFrames(c) ==
    LET rest == Remainder(StreamOf(c))
        writers == {p \in ProcsOf(Peer(c)) : task[p].pc = "write"}
    IN  /\ writers = {} => rest = <<>>
        /\ \A p \in writers : rest \o task[p].buf \in ValidFrames

\* C21: every frame the writer puts on the transport is an 8-byte big-endian
\* length followed by exactly that many bytes; as long as no transport call
\* has failed, the stream is a concatenation of whole frames after any sends
\* and closes; a successful frame read takes the 8 bytes and then exactly the
\* announced number of bytes off the stream, which leaves it at the start of
\* the next frame.
C21_FrameInvariant ==
    /\ [](\A c \in Conns : (faults = 0 /\ ~Eof(c)) => WholeFrames(Peer(c)))
    /\ [][\A p \in ConnProcs :
            LET c == Inst(p)
                t == task[p]
                b == task'[p].buf
            IN  /\ (t.pc = "lock" /\ task'[p].pc = "write")
                   => /\ Len(b) >= PrefixLen
                      /\ read_u64(Take(b, PrefixLen)) = Len(b) - PrefixLen
                      /\ \A k \in 1..5 : b[k] = 0
                /\ (t.pc = "write" /\ task'[p] # t /\ faults' = faults /\ ~Eof(c))
                   => \E n \in 1..Len(t.buf) :
                         /\ wire'[Peer(c)] = wire[Peer(c)] \o Take(t.buf, n)
                         /\ b = Drop(t.buf, n)
                /\ (t.pc = "read_len" /\ task'[p].pc = "read_body")
                   => /\ Len(wire[c]) >= PrefixLen
                      /\ wire'[c] = Drop(wire[c], PrefixLen)
                      /\ task'[p].need = read_u64(Take(wire[c], PrefixLen))
                /\ (t.pc = "read_body" /\ Returned(p) /\ ret'.res # Err("Io"))
                   => /\ Len(wire[c]) >= t.need
                      /\ wire'[c] = Drop(wire[c], t.need)
                      /\ (faults = 0 /\ ~Eof(Peer(c))) => WholeFrames(c)']_vars

C21_Witness ==
    \E c \in Conns, v \in Payloads :
        /\ CanSerialise(v) /\ faults = 0
        /\ wire[Peer(c)] = serialised_vec(into_writer(Data(v)).bytes) \o ClosingFrame
        /\ ret.op = "close" /\ Inst(ret.p) = c

\* what the caller of the operation that returned gets: Drop::drop returns
\* nothing, whatever the close() inside it returned
Reported(r) == IF r.op = "drop" THEN Ok(Unit) ELSE r.res

\* a transport call of the operation of p fails in this step: a failing call,
\* a write to a stream whose other end is gone, a read at the end of the stream
FailsIn(p) ==
    /\ task'[p] # task[p]
    /\ \/ faults' > faults
       \/ task[p].pc = "write" /\ Eof(Inst(p))
       \/ /\ task[p].pc = "read_len" /\ Len(wire[Inst(p)]) < PrefixLen
       \/ /\ task[p].pc = "read_body" /\ Len(wire[Inst(p)]) < task[p].need

\* the step is inside the ClosingConnection write of Connection.close(),
\* called by the caller or by Drop for Connection
InClosingWrite(p) ==
    /\ Inst(p) \in Conns
    /\ task[p].op \in {"close", "drop"}
    /\ task[p].pc \in {"write", "flush"}

\* C22 as stated: the only failure that is discarded is that of the
\* ClosingConnection write inside Connection.close(); every other transport
\* failure makes the operation in which it happens return Io to its caller.
C22_OnlyCloseWriteDiscarded ==
    [][/\ \A p \in Procs :
            (FailsIn(p) /\ ~InClosingWrite(p))
            => Returned(p) /\ Reported(ret') = Err("Io")
       /\ (faults' > faults /\ task' = task)
            => ret'.op = "connect" /\ ret'.res = Err("Io")]_vars

\* C22, amended: a transport failure (connect, read, write, flush, accept,
\* listener close) makes the operation in which it happens return Io, a
\* payload that does not encode makes send return Serialise before anything
\* is written, a frame that does not decode makes receive return Deserialise;
\* the operation ends there. Discarded are the failure of the
\* ClosingConnection write inside Connection.close(), after which close()
\* closes the transport and succeeds, and the error of the close() that Drop
\* for Listener calls.
C22_ErrorPropagation ==
    [][/\ \A p \in Procs :
            LET i == Inst(p)
                t == task[p]
            IN  /\ FailsIn(p)
                   => /\ Returned(p)
                      /\ IF InClosingWrite(p)
                         THEN /\ ret'.res = Ok(Unit)
                              /\ closed'[i] /\ "close" \in ret'.io
                         ELSE /\ ret'.res = Err("Io")
                              /\ Reported(ret') = Err("Io")
                                    \/ (t.op = "drop" /\ i \in Listeners /\ form[i] = "sync")
                /\ ( /\ i \in Conns /\ t.pc = "lock" /\ task'[p] # t /\ ~closed[i]
                     /\ t.op \in {"send", "send_and_receive"} /\ t.half # "recv" )
                   => \/ /\ Returned(p) /\ ret'.res = Err("Serialise")
                         /\ ret'.io = {} /\ wire' = wire
                      \/ /\ task'[p].pc = "write"
                         /\ task'[p].buf \in ValidFrames \ {ClosingFrame}
                /\ ( /\ i \in Conns /\ t.pc = "read_body" /\ Returned(p)
                     /\ ~FailsIn(p) )
                   => DecodedAs(p, Take(wire[i], t.need), ret'.res)
       /\ (faults' > faults /\ task' = task)
            => ret'.op = "connect" /\ ret'.res = Err("Io")]_vars

C22_Witness ==
    \E l \in Listeners :
        /\ form[l] = "sync" /\ life[l] = "dropped"
        /\ ret.op = "drop" /\ Inst(ret.p) = l /\ ret.res = Err("Io")
        /\ closed[l] /\ nclose[l] = 1

\* no task of the two ends of the stream of p is in a receive()
NoneReceiving(p) ==
    \A r \in ConnProcs : task[r].op \notin {"receive", "send_and_receive"}

\* C23: the close handshake does not hang, in either form: when both peers
\* are in close() and neither is in receive(), both calls return and both
\* peers end Closed; when one peer has closed, no transport call having
\* failed, a receive() of the other peer returns instead of waiting forever.
C23_CloseHandshake ==
    \A p \in ConnProcs, q \in ConnProcs :
        Inst(q) = Peer(Inst(p)) =>
            /\ ( /\ task[p].op = "close" /\ task[p].pc # "idle"
                 /\ task[q].op = "close" /\ task[q].pc # "idle"
                 /\ NoneReceiving(p) )
               ~> \/ closed[Inst(p)] /\ closed[Inst(q)]
                  \/ ~NoneReceiving(p)
            /\ ( /\ closed[Inst(p)] /\ life[Inst(p)] = "live" /\ faults = 0
                 /\ Reading(q) )
               ~> (~Reading(q) \/ faults > 0)

\* the values that the successful ones of the results rs returned
RECURSIVE Values(_)
Values(rs) ==
    IF rs = <<>> THEN <<>>
    ELSE IF Head(rs).kind = "Ok" THEN <<Head(rs).val>> \o Values(Tail(rs))
    ELSE Values(Tail(rs))

IsPrefix(a, b) == Len(a) <= Len(b) /\ \A k \in 1..Len(a) : a[k] = b[k]

Suspended(p) == task[p].pc \in {"read_len", "read_body", "accept"}

\* C25: in the shared form the guard is held across the blocking transport
\* call: while a task is suspended inside receive() (inside accept()), no
\* send(), close() or is_closed() of another task on the same Connection (no
\* close() or is_closed() on the same Listener) gets past the guard, so none
\* completes before that receive() (accept()) has returned.
C25_GuardAcrossIo ==
    [][\A p \in Procs, q \in Procs :
          ( /\ form[Inst(p)] = "async" /\ Inst(q) = Inst(p) /\ q # p
            /\ Suspended(p) )
          => /\ inner[Inst(p)] = p
             /\ ~Returned(q)
             /\ task[q].pc \in {"idle", "lock"}
             /\ task'[q].pc \in {"idle", "lock"}]_vars

C25_Witness ==
    /\ form["A"] = "async"
    /\ task["A1"].op = "receive" /\ task["A1"].pc = "read_len" /\ wire["A"] = <<>>
    /\ task["A2"].op = "close" /\ task["A2"].pc = "lock"
    /\ inner["A"] = "A1" /\ ~closed["A"]

\* p is between the send and the receive of its send_and_receive
BetweenHalves(p) ==
    task[p].op = "send_and_receive" /\ task[p].half = "recv" /\ task[p].pc = "lock"

\* C26: in the shared form send_and_receive is not one critical section: when
\* its send has succeeded the guard is released and the task waits for it
\* again, and a receive() or close() of another task that waits for the guard
\* can take it first; a send_and_receive whose receive finds the connection
\* closed by then returns Closed(false) though its send succeeded.
C26_TwoSections ==
    [][\A p \in ConnProcs :
          LET c == Inst(p)
          IN  form[c] = "async" =>
                /\ (task[p].op = "send_and_receive" /\ task[p].pc = "flush"
                    /\ task'[p] # task[p] /\ faults' = faults)
                   => /\ BetweenHalves(p)'
                      /\ inner'[c] = "none"
                      /\ ret' = NoRet
                /\ BetweenHalves(p)
                   => /\ inner[c] # p
                      /\ \A q \in ProcsOf(c) \ {p} :
                            (task[q].pc = "lock" /\ inner[c] = "none")
                            => /\ task[q].op = "receive" => ENABLED BeginReceive(q)
                               /\ task[q].op = "close" => ENABLED BeginClose(q)
                /\ (BetweenHalves(p) /\ Returned(p))
                   => /\ closed[c]
                      /\ ret'.res = Closed(FALSE)
                      /\ ret'.io = {"write", "flush"}
                      /\ ~ret'.was]_vars

\* another task received the reply and closed; the send_and_receive, whose
\* send succeeded, returned Closed(false)
C26_Witness ==
    /\ twin.turn = "dialogue" /\ twin.script = "shared" /\ form["A"] = "async"
    /\ twin.got["B1"] = <<Ok(twin.x), Ok(Unit)>>
    /\ twin.got["A2"] = <<Ok(twin.y), Ok(Unit)>>
    /\ twin.got["A1"] = <<Closed(FALSE)>>
    /\ ret.p = "A1" /\ "flush" \in ret.io

\* C27: a failed receive() does not close the connection: when receive() on an
\* Open connection returns Io (a read failure or the end of the stream) or
\* Deserialise, the closed flag stays false and the transport is not closed;
\* on Deserialise the whole frame has been taken off the stream, which is then
\* at the start of the following frame for the next receive().
C27_FailedReceiveKeepsOpen ==
    [][\A p \in ConnProcs :
          LET c == Inst(p)
              t == task[p]
          IN  ( /\ t.op = "receive" /\ t.pc \in {"read_len", "read_body"}
                /\ Returned(p) /\ ret'.res.kind \in {"Io", "Deserialise"} )
              => /\ ~closed[c] /\ ~closed'[c]
                 /\ nclose' = nclose
                 /\ "close" \notin ret'.io
                 /\ life' = life
                 /\ ret'.res.kind = "Deserialise"
                    => /\ t.pc = "read_body"
                       /\ Len(wire[c]) >= t.need
                       /\ wire'[c] = Drop(wire[c], t.need)
                       /\ \E ty \in Types :
                             ~from_reader(Take(wire[c], t.need), ReceiveType(p, ty)).ok
                       /\ (faults = 0 /\ ~Eof(Peer(c))) => WholeFrames(c)']_vars

C27_Witness ==
    \E c \in Conns :
        /\ ret.op = "receive" /\ Inst(ret.p) = c /\ ret.res = Err("Deserialise")
        /\ ~closed[c] /\ nclose[c] = 0 /\ faults = 0
        /\ wire[c] = <<>>

\* how often the transport close of i has been called: the calls that have
\* returned and the one a task is inside
Invoked(i) ==
    nclose[i] + Cardinality({p \in ProcsOf(i) : task[p].pc = "close_internal"})

\* C28: the transport is released exactly at the transition to Closed: for
\* every Connection and Listener, in every reachable state, the transport
\* close has been invoked at most once, and it has been invoked exactly when
\* the closed flag has been set; no read, write, flush or accept is issued on
\* a transport whose close was invoked.
C28_ReleaseAtClose ==
    /\ [](\A i \in Insts :
            /\ Invoked(i) <= 1
            /\ Invoked(i) = 1 <=> closed[i])
    /\ [][\A p \in Procs :
            ( /\ task[p].pc \in {"write", "flush", "read_len", "read_body", "accept"}
              /\ task'[p] # task[p] )
            => /\ Invoked(Inst(p)) = 0
               /\ ~closed[Inst(p)]
               /\ Invoked(Inst(p))' = 1
                  => /\ closed'[Inst(p)] /\ "close" \in ret'.io
                     /\ \/ task[p].op \in {"close", "drop"}
                        \/ ret'.res = Closed(TRUE)]_vars

C28_Witness ==
    \E c \in Conns, l \in Listeners :
        /\ closed[c] /\ nclose[c] = 1
        /\ closed[l] /\ nclose[l] = 0 /\ Invoked(l) = 1
        /\ \E d \in Conns : ~closed[d] /\ Invoked(d) = 0 /\ life[d] = "live"

\* C29: closing or dropping a Listener leaves the Connections it has returned
\* from accept() as they are: no step of the close or the drop changes their
\* closed flag, their transport (its close count, the bytes on the stream in
\* either direction, whether the stream has ended), their guard or the
\* operations running on them, so send() and receive() on them go on as
\* before.
C29_ListenerCloseLeavesConns ==
    [][\A p \in ListenerProcs :
          (task[p].op \in {"close", "drop"} /\ task'[p] # task[p])
          => /\ wire' = wire
             /\ \A c \in Conns :
                   /\ closed'[c] = closed[c]
                   /\ nclose'[c] = nclose[c]
                   /\ life'[c] = life[c]
                   /\ inner'[c] = inner[c]
                   /\ life["B"] = "live" => (Eof(c)' <=> Eof(c))
             /\ \A q \in ConnProcs : task'[q] = task[q]]_vars

C29_Witness ==
    \E l \in Listeners :
        /\ closed[l] /\ nclose[l] = 1
        /\ life["B"] = "live" /\ ~closed["B"] /\ nclose["B"] = 0
        /\ ret.p = "B1" /\ ret.op = "send" /\ ret.res = Ok(Unit)
        /\ Len(wire["A"]) > PrefixLen

====
